---- MODULE Spec2Model ----
(***************************************************************************)
(* The chunk/manifest protocol of johnny-blog-dg: FileChunker (write path) *)
(* and FileDecryptor (read path, with its decode cache).                   *)
(*                                                                         *)
(* Buffers are sequences of bytes.  Sizes are scaled down: the ceiling     *)
(* MAX_GITHUB_SIZE (100 MiB in the source) is 4 bytes here, and bytes are  *)
(* taken modulo ByteMod instead of 256.                                    *)
(***************************************************************************)
EXTENDS Integers, Sequences, FiniteSets, TLC

VARIABLES
    artifacts,   \* output directory: artifact path -> stored bytes
    manifests,   \* output directory: base name -> content of <base>.manifest.json
    ck,          \* the chunkFile call in progress (its locals, and the
                 \* (offset, length) ranges it has read), or idle
    ret,         \* outcome of the last chunkFile call
    cache,       \* FileDecryptor.cache: artifact path -> decoded plaintext
    dres,        \* outcome of the last decryptFile call
    dd,          \* outcome of the last direct decryptAndDecompress call
    budget,      \* remaining chunkFile runs, and the paths of the artifacts
                 \* modified since they were written
    calls,       \* the decryptAndDecompress calls that interleave at their
                 \* awaits: call id -> position, locals and outcome
    env,         \* process.env: whether AGE_PUBLIC_KEY / AGE_PRIVATE_KEY are set
    outputs,     \* the files written at output paths (the temp directory of
                 \* the API server included): path -> content
    api,         \* DatagraphAPI: its cache and the requests being handled
    backup       \* GitHubBackup: the runBackup call, the files under data/
                 \* and what git was asked to do

vars == <<artifacts, manifests, ck, ret, cache, dres, dd, budget, calls,
          env, outputs, api, backup>>

----------------------------------------------------------------------------
(* Bounds *)

MaxLen == 6          \* longest input file
MaxSeed == 1         \* input files are InputFile(n, k), k \in 0..MaxSeed
MaxChunkSize == 3    \* CHUNK_SIZE is taken from 1..MaxChunkSize
ByteMod == 4         \* bytes are 0..ByteMod-1
MaxRuns == 2         \* chunkFile calls in one behaviour
MaxReadChunks == 3   \* longest chunk list of a manifest handed to the read path
MaxCalls == 3        \* decryptAndDecompress calls that interleave
MaxLoop == 3         \* iterations of a chunk loop that has no end
MaxReqs == 2         \* content requests the server receives
MaxFiles == 3        \* files under data/ when the backup runs

(* Program constant (scaled): 100 * 1024 * 1024 in the source. *)
MAX_GITHUB_SIZE == 4

BaseNames == {"a"}
ChunkSizes == 1..MaxChunkSize

(* A field that is absent from a JavaScript object reads as undefined. *)
Undefined == "undefined"
UndefinedPath == <<"undefined">>
None == [kind |-> "none"]

(* The environment of a process that has both age keys *)
AllKeys == [publicKey |-> TRUE, privateKey |-> TRUE]

(* No API server and no backup run *)
NoApi == [cache |-> <<>>, reqs |-> <<>>]
NoBackup == [pc |-> "idle"]

(* The input files: length n, byte i is (k + i) mod ByteMod. *)
InputFile(n, k) == [i \in 1..n |-> (k + i) % ByteMod]
InputFiles == { InputFile(n, k) : n \in 0..MaxLen, k \in 0..MaxSeed }

Min(a, b) == IF a < b THEN a ELSE b

(* Math.ceil(a / b) for a >= 0, b > 0 *)
Ceil(a, b) == (a + b - 1) \div b

RECURSIVE Sum(_)
Sum(s) == IF s = <<>> THEN 0 ELSE Head(s) + Sum(Tail(s))

----------------------------------------------------------------------------
(* Paths *)

ChunkPath(base, i) == <<base, "chunk", i>>     \* `${baseName}.chunk.${i}.age.zst`
SinglePath(base) == <<base, "single">>         \* `${baseName}.age.zst`

----------------------------------------------------------------------------
(* The transforms.  zstd: a frame is a magic byte followed by the content. *)
(* age: the payload is enciphered bytewise under the key and followed by   *)
(* an authentication tag over the plaintext, so a ciphertext whose tag     *)
(* does not match is rejected.                                             *)

ZstdFrame == <<1>>
AgeKey == <<3>>

compressZstd(data) == ZstdFrame \o data

AgeTag(plain) == (Sum(plain) + Len(plain) + AgeKey[1]) % ByteMod

encryptAge(data) ==
    [i \in 1..Len(data) |-> (data[i] + AgeKey[1]) % ByteMod] \o <<AgeTag(data)>>

(* Mutant of AgeOpen: the authentication tag is not verified *)
AgeOpenNoTag(ct) ==
    IF Len(ct) = 0 THEN [ok |-> FALSE, data |-> <<>>]
    ELSE [ok |-> TRUE,
          data |-> [i \in 1..(Len(ct) - 1) |->
                       (ct[i] + ByteMod - AgeKey[1]) % ByteMod]]

(* age -d on stored bytes: the deciphered payload, or a failure *)
AgeOpen(ct) ==
    IF Len(ct) = 0 THEN [ok |-> FALSE, data |-> <<>>]
    ELSE LET body == SubSeq(ct, 1, Len(ct) - 1)
             plain == [i \in 1..Len(body) |-> (body[i] + ByteMod - AgeKey[1]) % ByteMod]
         IN  IF ct[Len(ct)] = AgeTag(plain)
             THEN [ok |-> TRUE, data |-> plain]
             ELSE [ok |-> FALSE, data |-> <<>>]

(* Mutant of decryptAge: AGE_PRIVATE_KEY is not looked at, age runs with
   whatever identity it finds *)
decryptAgeAnyKey(inputPath, store) ==
    IF inputPath \notin DOMAIN store
    THEN [ok |-> FALSE, data |-> <<>>]
    ELSE AgeOpen(store[inputPath])

(* decryptAge(inputPath): a DecryptionError when AGE_PRIVATE_KEY is not set;
   otherwise age reads the file at inputPath *)
decryptAge(inputPath, store) ==
    IF ~env.privateKey
    THEN [ok |-> FALSE, data |-> <<>>]
    ELSE IF inputPath \notin DOMAIN store
    THEN [ok |-> FALSE, data |-> <<>>]
    ELSE AgeOpen(store[inputPath])

(* Mutant of decompressZstd: a frame without content is rejected *)
decompressZstdNonEmpty(data) ==
    IF Len(data) >= 2 /\ SubSeq(data, 1, 1) = ZstdFrame
    THEN [ok |-> TRUE, data |-> Tail(data)]
    ELSE [ok |-> FALSE, data |-> <<>>]

decompressZstd(data) ==
    IF Len(data) >= 1 /\ SubSeq(data, 1, 1) = ZstdFrame
    THEN [ok |-> TRUE, data |-> Tail(data)]
    ELSE [ok |-> FALSE, data |-> <<>>]

(* SHA-256 as an injective digest of a buffer: its digits in base ByteMod+1 *)
RECURSIVE calculateHash(_)
calculateHash(data) ==
    IF data = <<>> THEN 0
    ELSE (Head(data) + 1) + (ByteMod + 1) * calculateHash(Tail(data))

----------------------------------------------------------------------------
(* FileChunker *)

Idle == [pc |-> "idle"]

(* The bytes compressAndEncrypt writes to outputPath *)
compressAndEncrypt(data) == encryptAge(compressZstd(data))

(* Mutant of ChunkOffset: every range but the first starts one byte early *)
ChunkOffsetOverlap(T, i) == IF i = 0 THEN 0 ELSE i * T - 1

(* The position chunk i is read at: i * CHUNK_SIZE *)
ChunkOffset(T, i) == i * T

(* The length of the buffer allocated for chunk i:
   Math.min(CHUNK_SIZE, fileSize - (i * CHUNK_SIZE)) *)
ChunkLength(fileSize, T, i) == Min(T, fileSize - i * T)

(* The buffer read for chunk i: ChunkLength bytes at ChunkOffset *)
ChunkBuffer(data, T, i) ==
    SubSeq(data, ChunkOffset(T, i) + 1,
                 ChunkOffset(T, i) + ChunkLength(Len(data), T, i))

(* Mutant of NumChunks: the quotient rounded down *)
NumChunksFloor(fileSize, T) == fileSize \div T

(* Math.ceil(fileSize / 0) for a positive fileSize: larger than every loop
   index *)
Infinity == MaxLen + MaxLoop + 1

(* Math.ceil(fileSize / CHUNK_SIZE), for every integer CHUNK_SIZE that
   parseInt can return *)
NumChunks(fileSize, T) ==
    IF T > 0 THEN Ceil(fileSize, T)
    ELSE IF T = 0 THEN (IF fileSize > 0 THEN Infinity ELSE 0)
    ELSE 0 - (fileSize \div (0 - T))

(* Mutant of ChunkRecord: indices are counted from 1 *)
ChunkRecordFromOne(base, data, T, i) ==
    [ index |-> i + 1, path |-> ChunkPath(base, i),
      size |-> Len(compressAndEncrypt(ChunkBuffer(data, T, i))),
      hash |-> calculateHash(ChunkBuffer(data, T, i)) ]

(* The ChunkInfo pushed for chunk i *)
ChunkRecord(base, data, T, i) ==
    [ index |-> i, path |-> ChunkPath(base, i),
      size |-> Len(compressAndEncrypt(ChunkBuffer(data, T, i))),
      hash |-> calculateHash(ChunkBuffer(data, T, i)) ]

SmallManifest(base, data, T, outputPath, size) ==
    [ originalFile |-> base, originalSize |-> Len(data), numChunks |-> 1,
      isChunked |-> "false", path |-> outputPath, size |-> size,
      hash |-> calculateHash(data), chunkSize |-> T, chunks |-> <<>> ]

ChunkedManifest(base, fileSize, numChunks, T, chunks) ==
    [ originalFile |-> base, originalSize |-> fileSize, numChunks |-> numChunks,
      isChunked |-> Undefined, path |-> UndefinedPath, size |-> 0,
      hash |-> 0, chunkSize |-> T, chunks |-> chunks ]

Failed(run, error, written) ==
    [ kind |-> "error", error |-> error, base |-> run.base, data |-> run.data,
      T |-> run.T, written |-> written, manifest |-> None ]

Returned(run, manifest, written) ==
    [ kind |-> "ok", error |-> "", base |-> run.base, data |-> run.data,
      T |-> run.T, written |-> written, manifest |-> manifest ]

(* chunkFile is called: stat the input and branch on its size *)
ChunkFileCall(base, data, T) ==
    /\ ck.pc = "idle"
    /\ budget.runs > 0
    /\ ck' = [ pc |-> IF Len(data) <= MAX_GITHUB_SIZE THEN "small" ELSE "loop",
               base |-> base, data |-> data, T |-> T,
               numChunks |-> NumChunks(Len(data), T),
               i |-> 0, chunks |-> <<>>, written |-> {}, ranges |-> <<>> ]
    /\ ret' = None
    /\ dres' = None
    /\ budget' = [budget EXCEPT !.runs = @ - 1]
    /\ UNCHANGED <<artifacts, manifests, cache, dd, calls,
                 env, outputs, api, backup>>

(* Mutant of Throw: the chunks pushed so far are saved in a manifest before
   the error leaves chunkFile *)
ThrowWithManifest(error, written) ==
    /\ ret' = Failed(ck, error, written)
    /\ ck' = Idle
    /\ manifests' = (ck.base :> ChunkedManifest(ck.base, Len(ck.data), ck.numChunks,
                                                ck.T, ck.chunks)) @@ manifests

(* A throw out of chunkFile: the call ends with the error, nothing more is
   written *)
Throw(error, written) ==
    /\ ret' = Failed(ck, error, written)
    /\ ck' = Idle
    /\ manifests' = manifests

(* processSmallFile: compress, encrypt, write the artifact, return a manifest.
   zstdOk / ageOk: whether the external tool succeeds; encryptAge throws an
   EncryptionError before it runs age when AGE_PUBLIC_KEY is not set. *)
ProcessSmallFile(zstdOk, ageOk) ==
    /\ ck.pc = "small"
    /\ LET outputPath == SinglePath(ck.base)
           encrypted == compressAndEncrypt(ck.data)
       IN  IF ~zstdOk
           THEN /\ Throw("CompressionError", {})
                /\ UNCHANGED artifacts
           ELSE IF ~ageOk \/ ~env.publicKey
           THEN /\ Throw("EncryptionError", {})
                /\ UNCHANGED artifacts
           ELSE /\ artifacts' = (outputPath :> encrypted) @@ artifacts
                /\ ret' = Returned(ck,
                              SmallManifest(ck.base, ck.data, ck.T, outputPath,
                                            Len(encrypted)),
                              {outputPath})
                /\ ck' = Idle
                /\ manifests' = manifests
    /\ dres' = None
    /\ UNCHANGED <<cache, dd, budget, calls,
                 env, outputs, api, backup>>

(* One iteration of the chunk loop: read the chunk, compress, encrypt and
   write it, then verify the size of what was written *)
ChunkStep(zstdOk, ageOk) ==
    /\ ck.pc = "loop"
    /\ ck.i < ck.numChunks
    /\ LET chunkPath == ChunkPath(ck.base, ck.i)
           encrypted == compressAndEncrypt(ChunkBuffer(ck.data, ck.T, ck.i))
       IN  IF ~zstdOk
           THEN /\ Throw("CompressionError", ck.written)
                /\ UNCHANGED artifacts
           ELSE IF ~ageOk \/ ~env.publicKey
           THEN /\ Throw("EncryptionError", ck.written)
                /\ UNCHANGED artifacts
           ELSE /\ artifacts' = (chunkPath :> encrypted) @@ artifacts
                /\ IF Len(encrypted) > MAX_GITHUB_SIZE
                   THEN Throw("ChunkError", ck.written \cup {chunkPath})
                   ELSE /\ ck' = [ck EXCEPT
                                    !.i = @ + 1,
                                    !.written = @ \cup {chunkPath},
                                    !.ranges = Append(@,
                                        [ offset |-> ChunkOffset(ck.T, ck.i),
                                          length |-> ChunkLength(Len(ck.data),
                                                                 ck.T, ck.i) ]),
                                    !.chunks = Append(@,
                                        ChunkRecord(ck.base, ck.data, ck.T, ck.i))]
                        /\ ret' = ret
                        /\ manifests' = manifests
    /\ dres' = None
    /\ UNCHANGED <<cache, dd, budget, calls,
                 env, outputs, api, backup>>

ManifestPath(base) == <<base, "manifest">>    \* `${baseName}.manifest.json`

(* After the loop: build the manifest, write it, return it *)
WriteManifest ==
    /\ ck.pc = "loop"
    /\ ck.i >= ck.numChunks
    /\ LET manifest == ChunkedManifest(ck.base, Len(ck.data), ck.numChunks, ck.T,
                                       ck.chunks)
       IN  /\ manifests' = (ck.base :> manifest) @@ manifests
           /\ ret' = Returned(ck, manifest, ck.written \cup {ManifestPath(ck.base)})
    /\ ck' = Idle
    /\ dres' = None
    /\ UNCHANGED <<artifacts, cache, dd, budget, calls,
                 env, outputs, api, backup>>

----------------------------------------------------------------------------
(* FileDecryptor *)

(* The outcome of a decryptAndDecompress call: the buffer or the error, the
   cache afterwards, and the number of transform invocations (age -d,
   zstd -d) the call made *)
Decoded(ok, err, data, c, transforms) ==
    [ok |-> ok, err |-> err, data |-> data, cache |-> c, transforms |-> transforms]

(* Mutant of DecompressAndCache: the result is not stored in the cache *)
DecompressNoCache(inputPath, c, decompressed) ==
    IF ~decompressed.ok
    THEN Decoded(FALSE, "CompressionError", <<>>, c, 2)
    ELSE Decoded(TRUE, "", decompressed.data, c, 2)

(* Mutant of DecompressAndCache: the cache is left holding the new entry
   alone *)
DecompressAndCacheAlone(inputPath, c, decompressed) ==
    IF ~decompressed.ok
    THEN Decoded(FALSE, "CompressionError", <<>>, c, 2)
    ELSE Decoded(TRUE, "", decompressed.data,
                 (inputPath :> decompressed.data), 2)

(* decryptAndDecompress from "Step 2: Decompress with zstd" on *)
DecompressAndCache(inputPath, c, decompressed) ==
    IF ~decompressed.ok
    THEN Decoded(FALSE, "CompressionError", <<>>, c, 2)
    ELSE Decoded(TRUE, "", decompressed.data,
                 (inputPath :> decompressed.data) @@ c, 2)

(* Mutant of AfterDecrypt: a failed decrypt leaves an empty buffer in the
   cache *)
AfterDecryptCachesFailure(inputPath, c, decrypted) ==
    IF ~decrypted.ok
    THEN Decoded(FALSE, "DecryptionError", <<>>, (inputPath :> <<>>) @@ c, 1)
    ELSE DecompressAndCache(inputPath, c, decompressZstd(decrypted.data))

(* decryptAndDecompress after decryptAge has settled *)
AfterDecrypt(inputPath, c, decrypted) ==
    IF ~decrypted.ok
    THEN Decoded(FALSE, "DecryptionError", <<>>, c, 1)
    ELSE DecompressAndCache(inputPath, c, decompressZstd(decrypted.data))

(* decryptAndDecompress(inputPath) on cache c and directory store *)
decryptAndDecompress(inputPath, c, store) ==
    IF inputPath \in DOMAIN c
    THEN Decoded(TRUE, "", c[inputPath], c, 0)
    ELSE AfterDecrypt(inputPath, c, decryptAge(inputPath, store))

(* Mutant of VerifyChunk: the hash of the decoded chunk is not compared *)
VerifyChunkNoHash(chunkInfo, st, r) ==
    IF ~r.ok
    THEN [st EXCEPT !.err = r.err, !.cache = r.cache, !.decodes = @ + 1,
                    !.transforms = @ + r.transforms]
    ELSE [st EXCEPT !.chunks = (chunkInfo.index :> r.data) @@ @,
                    !.cache = r.cache, !.decodes = @ + 1,
                    !.transforms = @ + r.transforms,
                    !.log = Append(@, r.data)]

(* Mutant of VerifyChunk: the buffer is pushed at the end of `chunks`, in the
   order of decoding *)
VerifyChunkPush(chunkInfo, st, r) ==
    IF ~r.ok
    THEN [st EXCEPT !.err = r.err, !.cache = r.cache, !.decodes = @ + 1,
                    !.transforms = @ + r.transforms]
    ELSE IF calculateHash(r.data) # chunkInfo.hash
    THEN [st EXCEPT !.err = "ChunkError",
                    !.msg = [what |-> "hash mismatch",
                             index |-> chunkInfo.index,
                             expected |-> chunkInfo.hash,
                             got |-> calculateHash(r.data)],
                    !.cache = r.cache, !.decodes = @ + 1,
                    !.transforms = @ + r.transforms,
                    !.log = Append(@, r.data)]
    ELSE [st EXCEPT !.chunks = (Len(st.log) :> r.data) @@ @,
                    !.cache = r.cache, !.decodes = @ + 1,
                    !.transforms = @ + r.transforms,
                    !.log = Append(@, r.data)]

(* The loop body of decryptFile after decryptAndDecompress returned r: verify
   the hash and store the buffer at chunks[chunkInfo.index].  st holds the
   cache, the array `chunks` (index -> buffer), the number of
   decryptAndDecompress calls and transform invocations made so far, and the
   buffers the calls returned *)
VerifyChunk(chunkInfo, st, r) ==
    IF ~r.ok
    THEN [st EXCEPT !.err = r.err, !.cache = r.cache, !.decodes = @ + 1,
                    !.transforms = @ + r.transforms]
    ELSE IF calculateHash(r.data) # chunkInfo.hash
    THEN [st EXCEPT !.err = "ChunkError",
                    !.msg = [what |-> "hash mismatch",
                             index |-> chunkInfo.index,
                             expected |-> chunkInfo.hash,
                             got |-> calculateHash(r.data)],
                    !.cache = r.cache, !.decodes = @ + 1,
                    !.transforms = @ + r.transforms,
                    !.log = Append(@, r.data)]
    ELSE [st EXCEPT !.chunks = (chunkInfo.index :> r.data) @@ @,
                    !.cache = r.cache, !.decodes = @ + 1,
                    !.transforms = @ + r.transforms,
                    !.log = Append(@, r.data)]

(* Mutant of DecodeStep: a failure of one chunk does not end the loop *)
DecodeStepContinue(chunkInfo, st, store) ==
    VerifyChunk(chunkInfo, st,
                decryptAndDecompress(chunkInfo.path, st.cache, store))

(* One iteration of the for loop; once an error is thrown nothing more runs *)
DecodeStep(chunkInfo, st, store) ==
    IF st.err # "" THEN st
    ELSE VerifyChunk(chunkInfo, st,
                     decryptAndDecompress(chunkInfo.path, st.cache, store))

(* The whole loop, in list order *)
DecodeLoop(list, st0, store) ==
    LET after[j \in 0..Len(list)] ==
            IF j = 0 THEN st0 ELSE DecodeStep(list[j], after[j - 1], store)
    IN  after[Len(list)]

NoMsg == [what |-> ""]

(* Array length of `chunks`: one more than the largest index assigned *)
ArrayLength(arr) ==
    IF DOMAIN arr = {} THEN 0
    ELSE 1 + CHOOSE k \in DOMAIN arr : \A l \in DOMAIN arr : l <= k

(* The buffers of indices 0..n-1 joined in index order *)
ConcatFrom(arr, n) ==
    LET joined[k \in 0..n] ==
            IF k = 0 THEN <<>> ELSE joined[k - 1] \o arr[k - 1]
    IN  joined[n]

(* Buffer.concat(chunks): a TypeError on a hole of the array *)
BufferConcat(arr) ==
    IF DOMAIN arr # 0..(ArrayLength(arr) - 1)
    THEN [ok |-> FALSE, data |-> <<>>]
    ELSE [ok |-> TRUE, data |-> ConcatFrom(arr, ArrayLength(arr))]

(* The outcome of a decryptFile call: the buffer or the error, the cache
   afterwards, whether outputPath was written, and what the call did: the
   number of decryptAndDecompress calls and of transform invocations, the
   buffers decryptAndDecompress returned, in call order, and the branch of
   `if (!manifest.isChunked)` the call took *)
DecryptResult(kind, err, msg, data, m, st, wrote) ==
    [ kind |-> kind, err |-> err, msg |-> msg, data |-> data, manifest |-> m,
      cache |-> st.cache, decodes |-> st.decodes, transforms |-> st.transforms,
      log |-> st.log, wrote |-> wrote, branch |-> st.branch ]

(* decryptSingleFile(inputPath, outputPath) once decryptAndDecompress
   returned r *)
SingleFileResult(m, r) ==
    IF r.ok
    THEN DecryptResult("ok", "", NoMsg, r.data, m,
                       [cache |-> r.cache, decodes |-> 1,
                        transforms |-> r.transforms, log |-> <<r.data>>,
                        branch |-> "single"],
                       TRUE)
    ELSE DecryptResult("error", r.err, NoMsg, <<>>, m,
                       [cache |-> r.cache, decodes |-> 1,
                        transforms |-> r.transforms, log |-> <<>>,
                        branch |-> "single"],
                       FALSE)

decryptSingleFile(m, c, store) ==
    SingleFileResult(m, decryptAndDecompress(m.path, c, store))

(* Mutant of VerifyTotalSize: the length is not compared with originalSize *)
VerifyTotalSizeSkipped(m, st, fullData) ==
    IF ~fullData.ok
    THEN DecryptResult("error", "TypeError", NoMsg, <<>>, m, st, FALSE)
    ELSE DecryptResult("ok", "", NoMsg, fullData.data, m, st, TRUE)

(* Mutant of VerifyTotalSize: the output file is written before the length is
   compared *)
VerifyTotalSizeAfterWrite(m, st, fullData) ==
    IF ~fullData.ok
    THEN DecryptResult("error", "TypeError", NoMsg, <<>>, m, st, FALSE)
    ELSE IF Len(fullData.data) # m.originalSize
    THEN DecryptResult("error", "ChunkError",
                       [what |-> "size mismatch", expected |-> m.originalSize,
                        got |-> Len(fullData.data)],
                       fullData.data, m, st, TRUE)
    ELSE DecryptResult("ok", "", NoMsg, fullData.data, m, st, TRUE)

(* decryptFile from "Verify total size" on, fullData being Buffer.concat(chunks) *)
VerifyTotalSize(m, st, fullData) ==
    IF ~fullData.ok
    THEN DecryptResult("error", "TypeError", NoMsg, <<>>, m, st, FALSE)
    ELSE IF Len(fullData.data) # m.originalSize
    THEN DecryptResult("error", "ChunkError",
                       [what |-> "size mismatch", expected |-> m.originalSize,
                        got |-> Len(fullData.data)],
                       <<>>, m, st, FALSE)
    ELSE DecryptResult("ok", "", NoMsg, fullData.data, m, st, TRUE)

(* decryptFile after the for loop ended in st *)
Reassemble(m, st) ==
    IF st.err # ""
    THEN DecryptResult("error", st.err, st.msg, <<>>, m, st, FALSE)
    ELSE VerifyTotalSize(m, st, BufferConcat(st.chunks))

(* decryptFile on the manifest m that readJson returned *)
decryptFile(m, c, store) ==
    IF m.isChunked # "true"
    THEN decryptSingleFile(m, c, store)
    ELSE Reassemble(m, DecodeLoop(m.chunks,
                           [ err |-> "", msg |-> NoMsg, cache |-> c,
                             chunks |-> <<>>, decodes |-> 0, transforms |-> 0,
                             log |-> <<>>, branch |-> "chunks" ],
                           store))

(* readJson fails when the manifest file does not exist *)
ReadJsonFailed ==
    [ kind |-> "error", err |-> "ENOENT", msg |-> NoMsg, data |-> <<>>,
      manifest |-> None, cache |-> cache, decodes |-> 0, transforms |-> 0,
      log |-> <<>>, wrote |-> FALSE, branch |-> "none" ]

(* The output path a caller of decryptFile passes for base; it lies outside
   the directory of artifacts and manifest files *)
OutputPath(base) == <<base, "out">>

(* path.join(outputDir, manifest.originalFile) *)
DirOutputPath(originalFile) == <<originalFile, "dir">>

(* fs.writeFile(outputPath, data), when decryptFile got that far *)
WriteOutput(r, outputPath, out) ==
    IF r.wrote THEN (outputPath :> r.data) @@ out ELSE out

(* What a decryptFile call leaves in dres *)
CallRecord(r, base, c) ==
    [ kind |-> r.kind, err |-> r.err, msg |-> r.msg,
      data |-> r.data, manifest |-> r.manifest, base |-> base,
      decodes |-> r.decodes, transforms |-> r.transforms,
      log |-> r.log, wrote |-> r.wrote, branch |-> r.branch,
      cached |-> DOMAIN c ]

(* Mutant of DecryptFile: a chunk artifact is deleted once it has been
   decoded into the output file *)
DecryptFileConsuming(base) ==
    /\ \E r \in { IF base \in DOMAIN manifests
                  THEN decryptFile(manifests[base], cache, artifacts)
                  ELSE ReadJsonFailed } :
           /\ dres' = CallRecord(r, base, cache)
           /\ cache' = r.cache
           /\ outputs' = WriteOutput(r, OutputPath(base), outputs)
           /\ artifacts' = IF r.wrote /\ r.branch = "chunks"
                           THEN [ q \in DOMAIN artifacts \
                                        { r.manifest.chunks[j].path :
                                            j \in 1..Len(r.manifest.chunks) }
                                  |-> artifacts[q] ]
                           ELSE artifacts
    /\ dd' = None
    /\ UNCHANGED <<manifests, ck, ret, budget, calls, env, api, backup>>

(* decryptFile(`${base}.manifest.json`, outputPath) is called and runs to its
   end *)
DecryptFile(base) ==
    /\ \E r \in { IF base \in DOMAIN manifests
                  THEN decryptFile(manifests[base], cache, artifacts)
                  ELSE ReadJsonFailed } :
           /\ dres' = CallRecord(r, base, cache)
           /\ cache' = r.cache
           /\ outputs' = WriteOutput(r, OutputPath(base), outputs)
    /\ dd' = None
    /\ UNCHANGED <<artifacts, manifests, ck, ret, budget, calls,
                 env, api, backup>>

(* The manifest files findManifests returns, in readdir order *)
RECURSIVE ManifestList(_)
ManifestList(names) ==
    IF names = {} THEN <<>>
    ELSE LET b == CHOOSE x \in names : TRUE
         IN  <<b>> \o ManifestList(names \ {b})

(* decryptDirectory's loop body once decryptFile settled with r: the output
   file and the cache it leaves, and the call's record *)
DirAfter(st, base, r) ==
    [ ok |-> r.kind = "ok", cache |-> r.cache,
      outputs |-> WriteOutput(r, DirOutputPath(manifests[base].originalFile),
                              st.outputs),
      last |-> CallRecord(r, base, st.cache) ]

(* One iteration of decryptDirectory's loop; a throw of decryptFile ends it *)
DirStep(st, base) ==
    IF ~st.ok THEN st
    ELSE DirAfter(st, base, decryptFile(manifests[base], st.cache, artifacts))

DirLoop(list, st0) ==
    LET after[j \in 0..Len(list)] ==
            IF j = 0 THEN st0 ELSE DirStep(after[j - 1], list[j])
    IN  after[Len(list)]

(* decryptDirectory(inputDir, outputDir) is called and runs to its end; dres
   keeps the record of the last decryptFile call it made *)
DecryptDirectory ==
    /\ \E st \in { DirLoop(ManifestList(DOMAIN manifests),
                            [ok |-> TRUE, cache |-> cache, outputs |-> outputs,
                             last |-> None]) } :
           /\ dres' = st.last
           /\ cache' = st.cache
           /\ outputs' = st.outputs
    /\ dd' = None
    /\ UNCHANGED <<artifacts, manifests, ck, ret, budget, calls,
                 env, api, backup>>

(* A direct call of the public decryptAndDecompress(inputPath); dd keeps its
   outcome and, in prev, the outcome of the call before it *)
DecryptAndDecompress(inputPath) ==
    /\ \E r \in { decryptAndDecompress(inputPath, cache, artifacts) } :
           /\ dd' = [ kind |-> IF r.ok THEN "ok" ELSE "error", err |-> r.err,
                      path |-> inputPath, data |-> r.data,
                      transforms |-> r.transforms,
                      prev |-> IF dd.kind = "none" THEN None
                               ELSE [kind |-> dd.kind, path |-> dd.path,
                                     data |-> dd.data] ]
           /\ cache' = r.cache
    /\ dres' = None
    /\ UNCHANGED <<artifacts, manifests, ck, ret, budget, calls,
                 env, outputs, api, backup>>

(* clearCache() *)
ClearCache ==
    /\ cache # <<>>
    /\ cache' = <<>>
    /\ dd' = None
    /\ dres' = None
    /\ UNCHANGED <<artifacts, manifests, ck, ret, budget, calls,
                 env, outputs, api, backup>>

----------------------------------------------------------------------------
(* The environment: a single byte of one stored artifact is changed *)

Tamper(p, pos, delta) ==
    /\ budget.changed = {}
    /\ p \in DOMAIN artifacts
    /\ pos \in 1..Len(artifacts[p])
    /\ artifacts' = [artifacts EXCEPT ![p][pos] = (@ + delta) % ByteMod]
    /\ budget' = [budget EXCEPT !.changed = @ \cup {p}]
    /\ dres' = None
    /\ UNCHANGED <<manifests, ck, ret, cache, dd, calls,
                 env, outputs, api, backup>>

(* The environment replaces a stored artifact by an age file for the same
   key whose payload is not a zstd frame *)
Replace(p) ==
    /\ budget.changed = {}
    /\ p \in DOMAIN artifacts
    /\ artifacts' = [artifacts EXCEPT ![p] = encryptAge(<<0>>)]
    /\ budget' = [budget EXCEPT !.changed = @ \cup {p}]
    /\ dres' = None
    /\ UNCHANGED <<manifests, ck, ret, cache, dd, calls,
                 env, outputs, api, backup>>

----------------------------------------------------------------------------
(* Write path and read path over the chunker's own output directory *)

Init ==
    /\ artifacts = <<>>
    /\ manifests = <<>>
    /\ ck = Idle
    /\ ret = None
    /\ cache = <<>>
    /\ dres = None
    /\ dd = None
    /\ budget = [runs |-> MaxRuns, changed |-> {}]
    /\ calls = <<>>
    /\ env = AllKeys
    /\ outputs = <<>>
    /\ api = NoApi
    /\ backup = NoBackup

Next ==
    \/ \E base \in BaseNames, data \in InputFiles, T \in ChunkSizes :
           ChunkFileCall(base, data, T)
    \/ \E zstdOk \in BOOLEAN, ageOk \in BOOLEAN : ProcessSmallFile(zstdOk, ageOk)
    \/ \E zstdOk \in BOOLEAN, ageOk \in BOOLEAN : ChunkStep(zstdOk, ageOk)
    \/ WriteManifest
    \/ \E base \in BaseNames : DecryptFile(base)

Spec == Init /\ [][Next]_vars

----------------------------------------------------------------------------
(* The read path over a data directory: the artifacts of one chunkFile call
   that returned, and beside them a manifest file, which is an input of
   decryptFile: the manifest the call returned, or one naming the same
   artifacts whose fields differ *)

ChunkList(base, data, T) ==
    [j \in 1..NumChunks(Len(data), T) |-> ChunkRecord(base, data, T, j - 1)]

ChunkArtifacts(base, data, T) ==
    [p \in { ChunkPath(base, i) : i \in 0..(NumChunks(Len(data), T) - 1) } |->
        compressAndEncrypt(ChunkBuffer(data, T, p[3]))]

Reverse(s) == [j \in 1..Len(s) |-> s[Len(s) + 1 - j]]

(* Manifests over the chunk list of m: m itself (as chunkFile writes it), m
   marked isChunked, marked manifests with one field changed, and the marked
   manifest whose last record repeats index 0 and whose originalSize is the
   length of what the records then assemble to (the first slice, of chunkSize
   bytes, is replaced by the last) *)
ManifestInputs(m) ==
    LET c == [m EXCEPT !.isChunked = "true"]
        n == Len(m.chunks)
    IN  {m, c, [c EXCEPT !.chunks = Reverse(@)],
         [c EXCEPT !.originalSize = @ + 1],
         [c EXCEPT !.chunks[n].index = 0,
                   !.originalSize = @ - m.chunkSize]}
        \cup { [c EXCEPT !.chunks[j].index = c.chunks[(j % n) + 1].index] :
                   j \in 1..n }
        \cup { [c EXCEPT !.chunks[j].index = n] : j \in 1..n }
        \cup { [c EXCEPT !.chunks[j].hash = @ + 1] : j \in 1..n }

(* Manifests over the single artifact of m: m itself (as processSmallFile
   returns it), and m with a recorded originalSize or hash that differs *)
SingleManifestInputs(m) ==
    {m, [m EXCEPT !.originalSize = @ + 1], [m EXCEPT !.hash = @ + 1]}

InitRead ==
    /\ ck = Idle
    /\ cache = <<>>
    /\ dres = None
    /\ dd = None
    /\ budget = [runs |-> 0, changed |-> {}]
    /\ calls = <<>>
    /\ env = AllKeys
    /\ outputs = <<>>
    /\ api = NoApi
    /\ backup = NoBackup
    /\ \E base \in BaseNames, data \in InputFiles, T \in ChunkSizes :
         LET run == [base |-> base, data |-> data, T |-> T]
             encrypted == compressAndEncrypt(data)
             small == SmallManifest(base, data, T, SinglePath(base), Len(encrypted))
             numChunks == NumChunks(Len(data), T)
             large == ChunkedManifest(base, Len(data), numChunks, T,
                                      ChunkList(base, data, T))
         IN  IF Len(data) <= MAX_GITHUB_SIZE
             THEN /\ artifacts = (SinglePath(base) :> encrypted)
                  /\ \E m \in SingleManifestInputs(small) : manifests = (base :> m)
                  /\ ret = Returned(run, small, {SinglePath(base)})
             ELSE /\ numChunks <= MaxReadChunks
                  /\ \A j \in 1..numChunks :
                         ChunkList(base, data, T)[j].size <= MAX_GITHUB_SIZE
                  /\ artifacts = ChunkArtifacts(base, data, T)
                  /\ \E m \in ManifestInputs(large) : manifests = (base :> m)
                  /\ ret = Returned(run, large,
                               DOMAIN ChunkArtifacts(base, data, T)
                                   \cup {ManifestPath(base)})

NextRead ==
    \/ \E base \in BaseNames : DecryptFile(base)
    \/ \E p \in DOMAIN artifacts : DecryptAndDecompress(p)
    \/ ClearCache
    \/ \E p \in DOMAIN artifacts, pos \in 1..(MaxLen + 2), delta \in 1..(ByteMod - 1) :
           Tamper(p, pos, delta)

SpecRead == InitRead /\ [][NextRead]_vars

(* The whole FileDecryptor over the same directories, with its output files:
   decryptFile, decryptDirectory, decryptAndDecompress and clearCache, in any
   order, while one stored artifact may be damaged (its first byte changed)
   or replaced from outside *)
NextFrame ==
    \/ \E base \in BaseNames : DecryptFile(base)
    \/ DecryptDirectory
    \/ \E p \in DOMAIN artifacts : DecryptAndDecompress(p)
    \/ ClearCache
    \/ \E p \in DOMAIN artifacts : Tamper(p, 1, 1)
    \/ \E p \in DOMAIN artifacts : Replace(p)

SpecFrame == InitRead /\ [][NextFrame]_vars

----------------------------------------------------------------------------
(* decryptAndDecompress calls that interleave.  An async call runs up to its
   next await without interruption: the cache lookup and age -d (execSync in
   the executor of the promise decryptAge returns), then zstd -d, then
   cache.set and the return.  Between these segments other calls run. *)

CallIds == 1..MaxCalls

CallState(pc, inputPath, kind, err, data, buf, transforms) ==
    [ pc |-> pc, path |-> inputPath, kind |-> kind, err |-> err, data |-> data,
      buf |-> buf, transforms |-> transforms ]

NoBuf == [ok |-> FALSE, data |-> <<>>]

(* The call is made: cache lookup; on a miss age -d runs and the call
   suspends at `await this.decryptAge(inputPath)` *)
CallDecryptAndDecompress(id, inputPath) ==
    /\ id \notin DOMAIN calls
    /\ calls' = (id :>
          IF inputPath \in DOMAIN cache
          THEN CallState("done", inputPath, "ok", "", cache[inputPath], NoBuf, 0)
          ELSE CallState("decrypted", inputPath, "pending", "", <<>>,
                         decryptAge(inputPath, artifacts), 1)) @@ calls
    /\ UNCHANGED <<artifacts, manifests, ck, ret, cache, dres, dd, budget,
                 env, outputs, api, backup>>

(* The call resumes with the outcome of decryptAge: zstd -d runs and the call
   suspends at `await this.decompressZstd(decrypted)` *)
ResumeAfterDecrypt(id) ==
    /\ id \in DOMAIN calls
    /\ calls[id].pc = "decrypted"
    /\ calls' = [calls EXCEPT ![id] =
          IF ~calls[id].buf.ok
          THEN CallState("done", @.path, "error", "DecryptionError", <<>>,
                         NoBuf, 1)
          ELSE CallState("decompressed", @.path, "pending", "", <<>>,
                         decompressZstd(@.buf.data), 2)]
    /\ UNCHANGED <<artifacts, manifests, ck, ret, cache, dres, dd, budget,
                 env, outputs, api, backup>>

(* The call resumes with the outcome of decompressZstd: cache.set, return *)
ResumeAfterDecompress(id) ==
    /\ id \in DOMAIN calls
    /\ calls[id].pc = "decompressed"
    /\ \E r \in { DecompressAndCache(calls[id].path, cache, calls[id].buf) } :
           /\ calls' = [calls EXCEPT ![id] =
                  CallState("done", @.path, IF r.ok THEN "ok" ELSE "error",
                            r.err, r.data, NoBuf, r.transforms)]
           /\ cache' = r.cache
    /\ UNCHANGED <<artifacts, manifests, ck, ret, dres, dd, budget,
                 env, outputs, api, backup>>

(* A data directory as one chunkFile call that returned left it, with the
   manifest it returned, and a decryptor with an empty cache *)
InitConc ==
    /\ ck = Idle
    /\ cache = <<>>
    /\ dres = None
    /\ dd = None
    /\ budget = [runs |-> 0, changed |-> {}]
    /\ calls = <<>>
    /\ env = AllKeys
    /\ outputs = <<>>
    /\ api = NoApi
    /\ backup = NoBackup
    /\ \E base \in BaseNames, data \in InputFiles, T \in ChunkSizes :
         LET run == [base |-> base, data |-> data, T |-> T]
             encrypted == compressAndEncrypt(data)
             small == SmallManifest(base, data, T, SinglePath(base), Len(encrypted))
             numChunks == NumChunks(Len(data), T)
             large == ChunkedManifest(base, Len(data), numChunks, T,
                                      ChunkList(base, data, T))
         IN  IF Len(data) <= MAX_GITHUB_SIZE
             THEN /\ artifacts = (SinglePath(base) :> encrypted)
                  /\ manifests = (base :> small)
                  /\ ret = Returned(run, small, {SinglePath(base)})
             ELSE /\ numChunks <= MaxReadChunks
                  /\ \A j \in 1..numChunks :
                         ChunkList(base, data, T)[j].size <= MAX_GITHUB_SIZE
                  /\ artifacts = ChunkArtifacts(base, data, T)
                  /\ manifests = (base :> large)
                  /\ ret = Returned(run, large,
                               DOMAIN ChunkArtifacts(base, data, T)
                                   \cup {ManifestPath(base)})

NextConc ==
    \/ \E id \in CallIds, p \in DOMAIN artifacts : CallDecryptAndDecompress(id, p)
    \/ \E id \in CallIds : ResumeAfterDecrypt(id)
    \/ \E id \in CallIds : ResumeAfterDecompress(id)

SpecConc == InitConc /\ [][NextConc]_vars

----------------------------------------------------------------------------
(* One process that writes and reads: chunkFile runs into the output
   directory while the same process's FileDecryptor decodes the artifacts
   that are there and keeps them in its cache *)

NextRewrite ==
    \/ \E base \in BaseNames, data \in InputFiles, T \in ChunkSizes :
           ChunkFileCall(base, data, T)
    \/ ProcessSmallFile(TRUE, TRUE)
    \/ ChunkStep(TRUE, TRUE)
    \/ WriteManifest
    \/ \E p \in DOMAIN artifacts : DecryptAndDecompress(p)
    \/ ClearCache

SpecRewrite == Init /\ [][NextRewrite]_vars

----------------------------------------------------------------------------
(* DatagraphAPI: the content handlers getPost, getImage and getDatabase of
   the Express server.  Each handler is an async function; between two of its
   awaits the handlers of other requests may run.  The directory this model
   keeps (artifacts, manifests) is the subdirectory api.dir of dataDir; the
   temp files are the output files the handlers hand to decryptFile. *)

Kinds == {"post", "image", "db"}

(* path.join(this.tempDir, `${slug}.md` | filename | `${table}.json`) *)
TempPath(kind, name) == <<name, "temp", kind>>

(* `post:${slug}`, `image:${filename}`, `db:${table}` *)
CacheKey(kind, name) == <<kind, name>>

(* JSON.parse(data.toString('utf-8')) succeeds.  Byte b of the model stands
   for the character of the digit b, so the text is a run of digits: it is a
   JSON value when it is a number literal, that is, not empty and without a
   leading zero. *)
IsJsonText(data) ==
    /\ Len(data) >= 1
    /\ (Len(data) = 1 \/ data[1] # 0)

(* A request arrives and its handler runs up to its first await: a hit of
   the server's cache is sent at once *)
ApiRequest(kind, name) ==
    /\ Len(api.reqs) < MaxReqs
    /\ api' = [api EXCEPT !.reqs = Append(@,
                 IF CacheKey(kind, name) \in DOMAIN api.cache
                 THEN [kind |-> kind, name |-> name, pc |-> "done",
                       responses |-> <<200>>]
                 ELSE [kind |-> kind, name |-> name, pc |-> "exists",
                       responses |-> <<>>])]
    /\ UNCHANGED <<artifacts, manifests, ck, ret, cache, dres, dd, budget,
                   calls, env, outputs, backup>>

(* await fs.pathExists(manifestPath) settles: 404 when the manifest file is
   not there, else on to decryptFile (fs.ensureDir of the temp directory
   changes nothing that is modelled) *)
ApiPathExists(id) ==
    /\ id \in 1..Len(api.reqs)
    /\ api.reqs[id].pc = "exists"
    /\ api' = IF api.reqs[id].kind = api.dir
                  /\ api.reqs[id].name \in DOMAIN manifests
               THEN [api EXCEPT !.reqs[id].pc = "decrypt"]
               ELSE [api EXCEPT !.reqs[id].pc = "done",
                                !.reqs[id].responses = <<404>>]
    /\ UNCHANGED <<artifacts, manifests, ck, ret, cache, dres, dd, budget,
                   calls, env, outputs, backup>>

(* The handler's state after decryptFile settled with r.  A buffer that
   passes JSON.parse (getDatabase only) is put in the server's cache and the
   handler goes on to remove the temp file.  Otherwise the catch block throws
   a DatagraphError and the handler's promise rejects: Express 5 passes the
   rejection to its default error handler, which answers 500 (the error
   middleware of setupMiddleware is registered before the routes and is not
   reached); Express 4 ignores the promise and no response is sent. *)
ApiAfterDecrypt(id, r) ==
    IF r.kind = "ok" /\ (api.reqs[id].kind # "db" \/ IsJsonText(r.data))
    THEN [api EXCEPT !.reqs[id].pc = "remove",
                     !.cache = (CacheKey(api.reqs[id].kind, api.reqs[id].name)
                                   :> r.data) @@ @]
    ELSE [api EXCEPT !.reqs[id].pc = "failed",
                     !.reqs[id].responses =
                         IF api.express = 5 THEN <<500>> ELSE <<>>]

(* await this.decryptor.decryptFile(manifestPath, tempPath) runs and the
   handler continues to its next await or to its end *)
ApiDecrypt(id) ==
    /\ id \in 1..Len(api.reqs)
    /\ api.reqs[id].pc = "decrypt"
    /\ \E r \in { decryptFile(manifests[api.reqs[id].name], cache, artifacts) } :
           /\ cache' = r.cache
           /\ outputs' = WriteOutput(r, TempPath(api.reqs[id].kind,
                                                 api.reqs[id].name), outputs)
           /\ api' = ApiAfterDecrypt(id, r)
    /\ dres' = None
    /\ dd' = None
    /\ UNCHANGED <<artifacts, manifests, ck, ret, budget, calls, env, backup>>

(* await fs.remove(tempPath) settles and the response is sent *)
ApiRemove(id) ==
    /\ id \in 1..Len(api.reqs)
    /\ api.reqs[id].pc = "remove"
    /\ outputs' = [ q \in DOMAIN outputs \
                            {TempPath(api.reqs[id].kind, api.reqs[id].name)}
                    |-> outputs[q] ]
    /\ api' = [api EXCEPT !.reqs[id].pc = "done",
                          !.reqs[id].responses = <<200>>]
    /\ UNCHANGED <<artifacts, manifests, ck, ret, cache, dres, dd, budget,
                   calls, env, backup>>

(* POST /api/admin/refresh-cache *)
RefreshCache ==
    /\ api.cache # <<>> \/ cache # <<>>
    /\ api' = [api EXCEPT !.cache = <<>>]
    /\ cache' = <<>>
    /\ dres' = None
    /\ dd' = None
    /\ UNCHANGED <<artifacts, manifests, ck, ret, budget, calls, env, outputs,
                   backup>>

(* The files behind the server: of MAX_GITHUB_SIZE + 1 bytes and more, text
   that is a JSON value (first digit not 0) or is not *)
ApiFiles ==
    { InputFile(n, k) : n \in (MAX_GITHUB_SIZE + 1)..MaxLen,
                        k \in {0, ByteMod - 1} }

(* The server starts over the directory chunkFile left for one file: the
   artifact alone for a small file; the chunks and the manifest file for a
   large one, the manifest as chunkFile wrote it or marked isChunked *)
InitApi ==
    /\ ck = Idle
    /\ ret = None
    /\ cache = <<>>
    /\ dres = None
    /\ dd = None
    /\ budget = [runs |-> 0, changed |-> {}]
    /\ calls = <<>>
    /\ env = AllKeys
    /\ outputs = <<>>
    /\ backup = NoBackup
    /\ \E express \in {4, 5}, dir \in Kinds :
          api = [express |-> express, dir |-> dir, cache |-> <<>>, reqs |-> <<>>]
    /\ \E base \in BaseNames, data \in ApiFiles \cup {<<>>}, T \in ChunkSizes :
         IF Len(data) <= MAX_GITHUB_SIZE
         THEN /\ artifacts = (SinglePath(base) :> compressAndEncrypt(data))
              /\ manifests = <<>>
         ELSE /\ NumChunks(Len(data), T) <= MaxReadChunks
              /\ \A j \in 1..NumChunks(Len(data), T) :
                     ChunkList(base, data, T)[j].size <= MAX_GITHUB_SIZE
              /\ artifacts = ChunkArtifacts(base, data, T)
              /\ \E marked \in {Undefined, "true"} :
                    manifests = (base :>
                       [ChunkedManifest(base, Len(data), NumChunks(Len(data), T),
                                        T, ChunkList(base, data, T))
                            EXCEPT !.isChunked = marked])

NextApi ==
    \/ \E kind \in Kinds, name \in BaseNames : ApiRequest(kind, name)
    \/ \E id \in 1..MaxReqs : ApiPathExists(id)
    \/ \E id \in 1..MaxReqs : ApiDecrypt(id)
    \/ \E id \in 1..MaxReqs : ApiRemove(id)
    \/ RefreshCache

SpecApi == InitApi /\ [][NextApi]_vars

----------------------------------------------------------------------------
(* GitHubBackup.runBackup.  backup.files are the sizes of the files under
   data/ in the order checkDirectory visits them (backup.hasData: whether
   data/ exists); backup.log lists the steps of runBackup that were entered
   and backup.git the git commands that ran. *)

(* 100 * 1024 * 1024 and 1024 * 1024 * 1024, scaled *)
BackupFileLimit == 4
BackupTotalLimit == 8

(* Mutant of SizeCompliant: the total size is not compared *)
SizeCompliantFilesOnly(totalSize, largeFiles) == largeFiles = 0

(* The value checkSizeCompliance returns after the scan *)
SizeCompliant(totalSize, largeFiles) ==
    IF largeFiles > 0 THEN FALSE
    ELSE IF totalSize > BackupTotalLimit THEN FALSE
    ELSE TRUE

(* The catch block of runBackup: process.exit(1) *)
BackupExit == [backup EXCEPT !.pc = "exit"]

BackupUnchanged ==
    UNCHANGED <<artifacts, manifests, ck, ret, cache, dres, dd, budget, calls,
                env, outputs, api>>

(* runBackup is called *)
RunBackup ==
    /\ backup.pc = "idle"
    /\ backup' = [backup EXCEPT !.pc = "init"]
    /\ BackupUnchanged

(* initializeGit: git status succeeds, or git init and git remote add run;
   a failure of those leaves runBackup through its catch *)
InitializeGit(hasRepo, gitOk) ==
    /\ backup.pc = "init"
    /\ backup' =
          IF hasRepo
          THEN [backup EXCEPT !.pc = "check", !.log = Append(@, "initializeGit"),
                              !.git = Append(@, "status")]
          ELSE IF gitOk
          THEN [backup EXCEPT !.pc = "check", !.log = Append(@, "initializeGit"),
                              !.git = @ \o <<"status", "init", "remote add">>]
          ELSE [backup EXCEPT !.pc = "exit", !.log = Append(@, "initializeGit"),
                              !.git = @ \o <<"status", "init">>]
    /\ BackupUnchanged

(* checkSizeCompliance starts: without data/ it returns true at once *)
CheckSizeCompliance ==
    /\ backup.pc = "check"
    /\ backup' =
          IF ~backup.hasData
          THEN [backup EXCEPT !.pc = "metadata",
                              !.log = Append(@, "checkSizeCompliance")]
          ELSE [backup EXCEPT !.pc = "scan",
                              !.log = Append(@, "checkSizeCompliance"),
                              !.i = 0, !.totalSize = 0, !.largeFiles = 0]
    /\ BackupUnchanged

(* checkDirectory visits the next file *)
CheckFile ==
    /\ backup.pc = "scan"
    /\ backup.i < Len(backup.files)
    /\ backup' = [backup EXCEPT
                    !.i = @ + 1,
                    !.totalSize = @ + backup.files[backup.i + 1],
                    !.largeFiles = IF backup.files[backup.i + 1] > BackupFileLimit
                                   THEN @ + 1 ELSE @]
    /\ BackupUnchanged

(* checkSizeCompliance returns; runBackup throws a GitHubError when the
   result is false *)
CheckDone ==
    /\ backup.pc = "scan"
    /\ backup.i >= Len(backup.files)
    /\ backup' = IF SizeCompliant(backup.totalSize, backup.largeFiles)
                 THEN [backup EXCEPT !.pc = "metadata"]
                 ELSE BackupExit
    /\ BackupUnchanged

(* createMetadata writes metadata/posts.json, images.json and chunks.json;
   an I/O error leaves runBackup through its catch *)
CreateMetadata(ioOk) ==
    /\ backup.pc = "metadata"
    /\ backup' = IF ioOk
                 THEN [backup EXCEPT !.pc = "commit",
                                     !.log = Append(@, "createMetadata")]
                 ELSE [backup EXCEPT !.pc = "exit",
                                     !.log = Append(@, "createMetadata")]
    /\ BackupUnchanged

(* commitAndPush: git add, git status; without changes it returns; else git
   commit and git push, whose failure is rethrown as a GitHubError *)
CommitAndPush(changes, pushOk) ==
    /\ backup.pc = "commit"
    /\ backup' =
          IF ~changes
          THEN [backup EXCEPT !.pc = "done", !.log = Append(@, "commitAndPush"),
                              !.git = @ \o <<"add", "status">>]
          ELSE IF pushOk
          THEN [backup EXCEPT !.pc = "done", !.log = Append(@, "commitAndPush"),
                              !.git = @ \o <<"add", "status", "commit", "push">>,
                              !.pushed = TRUE]
          ELSE [backup EXCEPT !.pc = "exit", !.log = Append(@, "commitAndPush"),
                              !.git = @ \o <<"add", "status", "commit", "push">>]
    /\ BackupUnchanged

FileSizes == 0..(BackupFileLimit + 1)

RECURSIVE SizeLists(_)
SizeLists(n) ==
    IF n = 0 THEN {<<>>}
    ELSE SizeLists(n - 1)
           \cup { Append(l, x) : l \in { q \in SizeLists(n - 1) : Len(q) = n - 1 },
                                 x \in FileSizes }

InitBackup ==
    /\ artifacts = <<>>
    /\ manifests = <<>>
    /\ ck = Idle
    /\ ret = None
    /\ cache = <<>>
    /\ dres = None
    /\ dd = None
    /\ budget = [runs |-> 0, changed |-> {}]
    /\ calls = <<>>
    /\ env = AllKeys
    /\ outputs = <<>>
    /\ api = NoApi
    /\ \E hasData \in BOOLEAN, files \in SizeLists(MaxFiles) :
          /\ ~hasData => files = <<>>
          /\ backup = [ pc |-> "idle", hasData |-> hasData, files |-> files,
                        i |-> 0, totalSize |-> 0, largeFiles |-> 0,
                        log |-> <<>>, git |-> <<>>, pushed |-> FALSE ]

NextBackup ==
    \/ RunBackup
    \/ \E hasRepo \in BOOLEAN, gitOk \in BOOLEAN : InitializeGit(hasRepo, gitOk)
    \/ CheckSizeCompliance
    \/ CheckFile
    \/ CheckDone
    \/ \E ioOk \in BOOLEAN : CreateMetadata(ioOk)
    \/ \E changes \in BOOLEAN, pushOk \in BOOLEAN : CommitAndPush(changes, pushOk)

SpecBackup == InitBackup /\ [][NextBackup]_vars

----------------------------------------------------------------------------
(* A process whose CHUNK_SIZE environment variable parses to an integer that
   is no usable chunk size: negative, zero, or not below MAX_GITHUB_SIZE.  It
   runs chunkFile once into an empty output directory; a chunk loop without
   end is followed for MaxLoop iterations. *)

InvalidChunkSizes == {0 - 1, 0, MAX_GITHUB_SIZE, MAX_GITHUB_SIZE + 1}

InitConfig ==
    /\ artifacts = <<>>
    /\ manifests = <<>>
    /\ ck = Idle
    /\ ret = None
    /\ cache = <<>>
    /\ dres = None
    /\ dd = None
    /\ budget = [runs |-> 1, changed |-> {}]
    /\ calls = <<>>
    /\ env = AllKeys
    /\ outputs = <<>>
    /\ api = NoApi
    /\ backup = NoBackup

NextConfig ==
    \/ \E base \in BaseNames, data \in InputFiles, T \in InvalidChunkSizes :
           ChunkFileCall(base, data, T)
    \/ \E zstdOk \in BOOLEAN, ageOk \in BOOLEAN : ProcessSmallFile(zstdOk, ageOk)
    \/ \E zstdOk \in BOOLEAN, ageOk \in BOOLEAN :
           ck.pc = "loop" /\ ck.i < MaxLoop /\ ChunkStep(zstdOk, ageOk)
    \/ WriteManifest

SpecConfig == InitConfig /\ [][NextConfig]_vars

----------------------------------------------------------------------------
(* A process whose environment lacks AGE_PUBLIC_KEY, AGE_PRIVATE_KEY or
   both, over the output directory an earlier chunkFile call (of a process
   that had the keys) left: the single artifact of a small file, or the
   chunks and the manifest file of a large one.  It runs chunkFile and the
   read path. *)

InitEnv ==
    /\ \E base \in BaseNames, data \in InputFiles, T \in ChunkSizes :
         IF Len(data) <= MAX_GITHUB_SIZE
         THEN /\ artifacts = (SinglePath(base) :> compressAndEncrypt(data))
              /\ manifests = <<>>
         ELSE /\ NumChunks(Len(data), T) <= MaxReadChunks
              /\ \A j \in 1..NumChunks(Len(data), T) :
                     ChunkList(base, data, T)[j].size <= MAX_GITHUB_SIZE
              /\ artifacts = ChunkArtifacts(base, data, T)
              /\ manifests = (base :> ChunkedManifest(base, Len(data),
                                         NumChunks(Len(data), T), T,
                                         ChunkList(base, data, T)))
    /\ ck = Idle
    /\ ret = None
    /\ cache = <<>>
    /\ dres = None
    /\ dd = None
    /\ budget = [runs |-> 1, changed |-> {}]
    /\ calls = <<>>
    /\ env \in [publicKey : BOOLEAN, privateKey : BOOLEAN] \ {AllKeys}
    /\ outputs = <<>>
    /\ api = NoApi
    /\ backup = NoBackup

NextEnv ==
    \/ \E base \in BaseNames, data \in InputFiles, T \in ChunkSizes :
           ChunkFileCall(base, data, T)
    \/ \E zstdOk \in BOOLEAN, ageOk \in BOOLEAN : ProcessSmallFile(zstdOk, ageOk)
    \/ \E zstdOk \in BOOLEAN, ageOk \in BOOLEAN : ChunkStep(zstdOk, ageOk)
    \/ WriteManifest
    \/ \E base \in BaseNames : DecryptFile(base)
    \/ \E p \in DOMAIN artifacts : DecryptAndDecompress(p)

SpecEnv == InitEnv /\ [][NextEnv]_vars

----------------------------------------------------------------------------
(* Properties of the write path, checked under Spec *)

(* The plaintext a stored artifact decodes to (decrypt, then decompress) *)
Decode(bytes) == decompressZstd(AgeOpen(bytes).data)

ArtifactsOf(written) == { p \in written : p[2] # "manifest" }

(* C1: Round-trip.  When decryptFile has run on the manifest a successful
   chunkFile call produced, nothing having been written in between, it
   returned a buffer identical to the input file of that call. *)
C1_RoundTrip ==
    (ret.kind = "ok" /\ dres.kind # "none" /\ dres.err # "ENOENT"
        /\ dres.base = ret.base /\ dres.manifest = ret.manifest)
    => (dres.kind = "ok" /\ dres.data = ret.data)

(* C2: Size bound.  No artifact in the output directory is larger than
   MAX_GITHUB_SIZE, whatever chunkFile calls have run, succeeded or failed. *)
C2_SizeBound ==
    \A p \in DOMAIN artifacts : Len(artifacts[p]) <= MAX_GITHUB_SIZE

(* C4: Manifest-last ordering.  In every state, each chunk record of a
   manifest file in the output directory names an artifact that exists and
   holds what the record describes: the recorded size, and a plaintext with
   the recorded hash. *)
C4_ManifestDescribesChunks ==
    \A base \in DOMAIN manifests :
        \A j \in 1..Len(manifests[base].chunks) :
            LET rec == manifests[base].chunks[j]
            IN  /\ rec.path \in DOMAIN artifacts
                /\ Len(artifacts[rec.path]) = rec.size
                /\ AgeOpen(artifacts[rec.path]).ok
                /\ Decode(artifacts[rec.path]).ok
                /\ calculateHash(Decode(artifacts[rec.path]).data) = rec.hash

(* C7: Chunk count.  A chunkFile call that returned wrote exactly one
   artifact and returned isChunked = false when the file is no longer than
   MAX_GITHUB_SIZE; otherwise it wrote k chunk artifacts, with numChunks = k
   = the length of the chunks list, k being the least number of chunks of
   CHUNK_SIZE bytes that hold the file. *)
C7_ChunkCount ==
    ret.kind = "ok" =>
        /\ ArtifactsOf(ret.written) \subseteq DOMAIN artifacts
        /\ IF Len(ret.data) <= MAX_GITHUB_SIZE
           THEN /\ ArtifactsOf(ret.written) = {SinglePath(ret.base)}
                /\ ret.manifest.isChunked = "false"
           ELSE \E k \in 1..Len(ret.data) :
                   /\ (k - 1) * ret.T < Len(ret.data)
                   /\ Len(ret.data) <= k * ret.T
                   /\ ArtifactsOf(ret.written)
                          = { ChunkPath(ret.base, i) : i \in 0..(k - 1) }
                   /\ ret.manifest.numChunks = k
                   /\ Len(ret.manifest.chunks) = k

(* C7 witness: a chunked file whose length is no multiple of CHUNK_SIZE has
   been chunked *)
C7_Witness ==
    /\ ret.kind = "ok"
    /\ Len(ret.data) > MAX_GITHUB_SIZE
    /\ Len(ret.data) % ret.T # 0
    /\ Len(ret.manifest.chunks) = 3

(* C8: Manifest persistence.  After a chunkFile call that returned, the
   manifest it returned is stored in the output directory as the manifest
   file of that base name. *)
C8_ManifestPersisted ==
    ret.kind = "ok" =>
        /\ ret.base \in DOMAIN manifests
        /\ manifests[ret.base] = ret.manifest

(* C9: No manifest after a failed write.  A chunkFile call that failed
   (compression, encryption or the size check) returned no manifest, no step
   of it wrote a manifest file, and the artifacts it had written stay in the
   output directory. *)
C9_NoManifestAfterFailure ==
    /\ [](ret.kind = "error" =>
            /\ ret.manifest = None
            /\ ManifestPath(ret.base) \notin ret.written
            /\ ret.written \subseteq DOMAIN artifacts)
    /\ [][(ck.pc # "idle" /\ ret'.kind # "ok") => manifests' = manifests]_vars

(* C9 witness: a call failed after it had written chunk artifacts *)
C9_Witness ==
    /\ ret.kind = "error"
    /\ ret.error \in {"CompressionError", "EncryptionError"}
    /\ Cardinality(ret.written) >= 2

----------------------------------------------------------------------------
(* Properties of the read path, checked under SpecRead *)

(* The artifact paths a manifest names *)
Refs(m) ==
    { m.chunks[j].path : j \in 1..Len(m.chunks) }
        \cup (IF m.path = UndefinedPath THEN {} ELSE {m.path})

Called == dres.kind # "none" /\ dres.err # "ENOENT"

DecodeOrIntegrityError ==
    /\ dres.kind = "error"
    /\ dres.err \in {"DecryptionError", "CompressionError", "ChunkError"}
    /\ dres.data = <<>>
    /\ ~dres.wrote

(* C3 as stated: Tamper detection.  When decryptFile has run on a manifest
   after a byte of an artifact the manifest names was changed, it failed with
   a DecryptionError, CompressionError or ChunkError and returned no buffer,
   whether or not the artifact had been decoded before the change. *)
C3_TamperDetected ==
    (Called /\ Refs(dres.manifest) \cap budget.changed # {})
    => DecodeOrIntegrityError

(* C3 as amended: the same, for a decryptFile call made while the location
   of the changed artifact was not in the decode cache. *)
C3_TamperDetectedWhenNotCached ==
    (Called /\ (Refs(dres.manifest) \cap budget.changed) \ dres.cached # {})
    => DecodeOrIntegrityError

(* C3 witness: decryptFile on a chunked manifest decoded a chunk, then met
   the changed artifact and failed *)
C3_Witness ==
    /\ Called
    /\ (Refs(dres.manifest) \cap budget.changed) \ dres.cached # {}
    /\ dres.manifest.isChunked = "true"
    /\ dres.decodes >= 2
    /\ dres.err = "DecryptionError"

(* The chunk indices are exactly 0..k-1, none twice and none skipped *)
DenseIndices(chunks) ==
    /\ { chunks[j].index : j \in 1..Len(chunks) } = 0..(Len(chunks) - 1)
    /\ \A i, j \in 1..Len(chunks) : chunks[i].index = chunks[j].index => i = j

(* C5: Manifest corruption detection precedes decode.  When decryptFile has
   run on a manifest whose chunk indices hold a duplicate or skip a value, it
   failed and made no decryptAndDecompress call. *)
C5_CorruptManifestFailsBeforeDecode ==
    (Called /\ ~DenseIndices(dres.manifest.chunks))
    => (dres.kind = "error" /\ dres.decodes = 0 /\ dres.transforms = 0)

(* C6: Per-chunk integrity.  In the chunked path of decryptFile the hash of
   every decoded chunk is compared with the hash of its record: the buffers
   decoded before the last one all matched; when the last decoded buffer does
   not match, the call failed with a ChunkError naming the chunk index, the
   expected and the computed digest, and returned no buffer; a call that
   returned a buffer decoded every record and every hash matched. *)
C6_PerChunkIntegrity ==
    (Called /\ dres.manifest.isChunked = "true") =>
        LET list == dres.manifest.chunks
            k == Len(dres.log)
        IN  /\ k <= Len(list)
            /\ \A j \in 1..(k - 1) : calculateHash(dres.log[j]) = list[j].hash
            /\ (k >= 1 /\ calculateHash(dres.log[k]) # list[k].hash) =>
                   /\ dres.kind = "error"
                   /\ dres.err = "ChunkError"
                   /\ dres.msg = [ what |-> "hash mismatch",
                                   index |-> list[k].index,
                                   expected |-> list[k].hash,
                                   got |-> calculateHash(dres.log[k]) ]
                   /\ dres.data = <<>>
                   /\ ~dres.wrote
            /\ dres.kind = "ok" =>
                   /\ k = Len(list)
                   /\ \A j \in 1..k : calculateHash(dres.log[j]) = list[j].hash

(* C6 witness: a hash mismatch met after an earlier chunk had passed *)
C6_Witness ==
    /\ Called
    /\ dres.manifest.isChunked = "true"
    /\ dres.err = "ChunkError"
    /\ dres.msg.what = "hash mismatch"
    /\ Len(dres.log) >= 2

(* C10: Decode cache idempotence.  Of two successive decryptAndDecompress
   calls for the same path with no clearCache between them, the first having
   returned a buffer, the second returned the same bytes and invoked no
   transform. *)
C10_CacheIdempotence ==
    (dd.kind # "none" /\ dd.prev.kind = "ok" /\ dd.prev.path = dd.path)
    => (dd.kind = "ok" /\ dd.data = dd.prev.data /\ dd.transforms = 0)

(* C10 witness: the second of two such calls, made after the artifact had
   been changed *)
C10_Witness ==
    /\ dd.kind = "ok"
    /\ dd.prev.kind = "ok"
    /\ dd.prev.path = dd.path
    /\ dd.path \in budget.changed

(* C11: Empty file.  For a 0-byte input the chunkFile call left exactly one
   artifact, the unchunked one, and returned a manifest with originalSize 0,
   isChunked false and no chunk records; when decryptFile has run on that
   manifest, the artifact being as the call wrote it, it returned a 0-byte
   buffer. *)
C11_EmptyFile ==
    (ret.kind = "ok" /\ ret.data = <<>>) =>
        /\ ArtifactsOf(ret.written) = {SinglePath(ret.base)}
        /\ DOMAIN artifacts = {SinglePath(ret.base)}
        /\ ret.manifest.originalSize = 0
        /\ ret.manifest.isChunked = "false"
        /\ ret.manifest.chunks = <<>>
        /\ ret.manifest.path = SinglePath(ret.base)
        /\ (Called /\ dres.manifest = ret.manifest /\ budget.changed = {}) =>
               (dres.kind = "ok" /\ dres.data = <<>> /\ Len(dres.data) = 0)

(* C11 witness: decryptFile has run on the manifest of a 0-byte file and
   decoded its artifact *)
C11_Witness ==
    /\ ret.kind = "ok"
    /\ ret.data = <<>>
    /\ Called
    /\ dres.manifest = ret.manifest
    /\ dres.kind = "ok"
    /\ dres.transforms = 2
    /\ budget.changed = {}

----------------------------------------------------------------------------
(* Properties of the manifest's isChunked flag, checked under Spec *)

(* C12: isChunked flag consistency.  In every manifest chunkFile returned,
   isChunked is false exactly when the chunks list is empty and path, size
   and hash are held on the manifest itself; and when decryptFile has run on
   a manifest with a non-empty chunks list, it took the per-chunk reassembly
   branch, not the single-artifact branch. *)
C12_FlagConsistency ==
    /\ ret.kind = "ok" =>
           ((ret.manifest.isChunked = "false")
               <=> (/\ ret.manifest.chunks = <<>>
                    /\ ret.manifest.path # UndefinedPath
                    /\ ret.manifest.size = Len(artifacts[ret.manifest.path])
                    /\ ret.manifest.hash = calculateHash(ret.data)))
    /\ (dres.kind # "none" /\ dres.err # "ENOENT"
            /\ dres.manifest.chunks # <<>>) => dres.branch = "chunks"

----------------------------------------------------------------------------
(* Further properties of the read path, checked under SpecRead *)

(* C13: Unchunked files are verified too.  When decryptFile has run on a
   manifest with isChunked false and returned a buffer, the buffer has the
   length the manifest records as originalSize and the digest it records as
   hash. *)
C13_UnchunkedVerified ==
    (Called /\ dres.manifest.isChunked = "false" /\ dres.kind = "ok") =>
        /\ Len(dres.data) = dres.manifest.originalSize
        /\ calculateHash(dres.data) = dres.manifest.hash
        /\ dres.wrote

----------------------------------------------------------------------------
(* Further properties of the write path, checked under Spec *)

(* C14: Size-violation error.  A chunkFile call never returns a manifest
   after it produced an artifact larger than MAX_GITHUB_SIZE: of a call that
   returned, every artifact it wrote, chunk or single, is within the ceiling
   (a call that produced a larger one failed with a ChunkError). *)
C14_SizeViolationError ==
    /\ ret.kind = "ok" =>
           \A p \in ArtifactsOf(ret.written) :
               Len(artifacts[p]) <= MAX_GITHUB_SIZE
    /\ (ret.kind = "error" /\ ret.error = "ChunkError") =>
           \E p \in ret.written : Len(artifacts[p]) > MAX_GITHUB_SIZE

----------------------------------------------------------------------------
(* Further properties of the read path, checked under SpecRead *)

(* The plaintext sizes of the slices the chunk records of a manifest name,
   added up *)
PlainSizes(chunks) ==
    LET upto[j \in 0..Len(chunks)] ==
            IF j = 0 THEN 0
            ELSE upto[j - 1] + Len(ChunkBuffer(ret.data, ret.T, chunks[j].path[3]))
    IN  upto[Len(chunks)]

(* C15: A structurally invalid manifest never reconstructs.  decryptFile has
   never returned a buffer for a manifest with chunk records whose indices
   are not exactly 0..k-1, each once, or whose originalSize differs from the
   sum of the plaintext sizes of its chunk records. *)
C15_InvalidManifestNeverReconstructs ==
    (Called /\ dres.manifest.chunks # <<>>
        /\ (\/ ~DenseIndices(dres.manifest.chunks)
            \/ dres.manifest.originalSize # PlainSizes(dres.manifest.chunks)))
    => (dres.kind = "error" /\ dres.data = <<>> /\ ~dres.wrote)

----------------------------------------------------------------------------
(* Further properties of the write path, checked under Spec *)

(* C16: Range plan.  For a file longer than MAX_GITHUB_SIZE the chunker reads
   range i at offset i * CHUNK_SIZE; every range but the last has CHUNK_SIZE
   bytes and the last has N mod CHUNK_SIZE bytes (CHUNK_SIZE when that is 0);
   the first range starts at 0, each range starts where the one before it
   ends, and once all numChunks ranges are read the last one ends at N, the
   number of ranges being the least k with k * CHUNK_SIZE >= N. *)
C16_RangePlan ==
    ck.pc = "loop" =>
        LET N == Len(ck.data)
            T == ck.T
            r == ck.ranges
        IN  /\ Len(r) = ck.i
            /\ ck.i <= ck.numChunks
            /\ (ck.numChunks - 1) * T < N
            /\ N <= ck.numChunks * T
            /\ \A j \in 1..Len(r) :
                   /\ r[j].offset = (j - 1) * T
                   /\ r[j].length = IF j < ck.numChunks THEN T
                                    ELSE IF N % T = 0 THEN T ELSE N % T
                   /\ r[j].length > 0
                   /\ r[j].offset = IF j = 1 THEN 0
                                    ELSE r[j - 1].offset + r[j - 1].length
            /\ ck.i = ck.numChunks =>
                   r[Len(r)].offset + r[Len(r)].length = N

(* C16 witness: all ranges of a file whose length is no multiple of
   CHUNK_SIZE have been read *)
C16_Witness ==
    /\ ck.pc = "loop"
    /\ ck.i = ck.numChunks
    /\ Len(ck.ranges) = 3
    /\ Len(ck.data) % ck.T # 0

(* The lengths of the plaintexts stored in the artifacts the chunk records
   name, added up *)
StoredSizes(chunks) ==
    LET upto[j \in 0..Len(chunks)] ==
            IF j = 0 THEN 0
            ELSE upto[j - 1] + Len(Decode(artifacts[chunks[j].path]).data)
    IN  upto[Len(chunks)]

(* C17: Produced manifest is well-formed.  The manifest chunkFile wrote for a
   chunked file lists numChunks records in ascending index order, the j-th
   having index j-1 (so the indices are exactly 0..numChunks-1), and its
   originalSize is the sum of the lengths of the plaintext slices stored in
   the artifacts of its records, which is the length of the file. *)
C17_WellFormedManifest ==
    (ret.kind = "ok" /\ Len(ret.data) > MAX_GITHUB_SIZE) =>
        /\ ret.base \in DOMAIN manifests
        /\ LET m == manifests[ret.base]
           IN  /\ m = ret.manifest
               /\ Len(m.chunks) = m.numChunks
               /\ \A j \in 1..Len(m.chunks) : m.chunks[j].index = j - 1
               /\ DenseIndices(m.chunks)
               /\ \A j \in 1..Len(m.chunks) :
                      /\ m.chunks[j].path \in DOMAIN artifacts
                      /\ Decode(artifacts[m.chunks[j].path]).ok
               /\ m.originalSize = StoredSizes(m.chunks)
               /\ m.originalSize = Len(ret.data)

(* C17 witness: the manifest of a three-chunk file has been written *)
C17_Witness ==
    /\ ret.kind = "ok"
    /\ Len(ret.data) > MAX_GITHUB_SIZE
    /\ ret.base \in DOMAIN manifests
    /\ Len(manifests[ret.base].chunks) = 3
    /\ manifests[ret.base].originalSize = 5

----------------------------------------------------------------------------
(* Further properties of the read path, checked under SpecRead *)

(* The buffers decoded for the records of a manifest, joined in ascending
   order of the records' indices 0..k-1 *)
InIndexOrder(chunks, log) ==
    LET joined[i \in 0..Len(chunks)] ==
            IF i = 0 THEN <<>>
            ELSE joined[i - 1]
                   \o log[CHOOSE j \in 1..Len(chunks) : chunks[j].index = i - 1]
    IN  joined[Len(chunks)]

(* The records of the manifest decryptFile read are those of the manifest
   chunkFile produced, in some order *)
SameRecords ==
    /\ Len(dres.manifest.chunks) = Len(ret.manifest.chunks)
    /\ { dres.manifest.chunks[j] : j \in 1..Len(dres.manifest.chunks) }
           = { ret.manifest.chunks[j] : j \in 1..Len(ret.manifest.chunks) }
    /\ dres.manifest.originalSize = ret.manifest.originalSize

(* C18: Assembly by index.  When decryptFile has returned a buffer for a
   chunked manifest with indices 0..k-1, the buffer is the decoded slices
   joined in ascending index order, in whatever order the records are listed
   and were decoded; for the records chunkFile produced, listed in any order,
   over unchanged artifacts, the call returned the input file. *)
C18_AssemblyByIndex ==
    (Called /\ dres.manifest.isChunked = "true") =>
        /\ (dres.kind = "ok" /\ DenseIndices(dres.manifest.chunks)) =>
               /\ Len(dres.log) = Len(dres.manifest.chunks)
               /\ dres.data = InIndexOrder(dres.manifest.chunks, dres.log)
        /\ (SameRecords /\ budget.changed = {}) =>
               (dres.kind = "ok" /\ dres.data = ret.data)

(* C18 witness: a manifest listing three records in descending index order
   has been reassembled *)
C18_Witness ==
    /\ Called
    /\ dres.manifest.isChunked = "true"
    /\ Len(dres.manifest.chunks) = 3
    /\ dres.manifest.chunks = Reverse(ret.manifest.chunks)
    /\ dres.kind = "ok"
    /\ dres.transforms = 6

(* Every record of the manifest was decoded and its hash matched *)
AllChunksVerified ==
    /\ Len(dres.log) = Len(dres.manifest.chunks)
    /\ \A j \in 1..Len(dres.log) :
           calculateHash(dres.log[j]) = dres.manifest.chunks[j].hash

(* The indices of the records, and the position of the last record that
   carries index i *)
IndexSet(chunks) == { chunks[j].index : j \in 1..Len(chunks) }

LastWithIndex(chunks, i) ==
    CHOOSE j \in 1..Len(chunks) :
        /\ chunks[j].index = i
        /\ \A l \in (j + 1)..Len(chunks) : chunks[l].index # i

(* The length of the decoded buffers joined, one per index *)
AssembledLength(chunks, log) ==
    LET n == Cardinality(IndexSet(chunks))
        upto[i \in 0..n] ==
            IF i = 0 THEN 0
            ELSE upto[i - 1] + Len(log[LastWithIndex(chunks, i - 1)])
    IN  upto[n]

(* C19: Total length check.  When decryptFile has decoded and verified every
   chunk of a manifest and the decoded chunks, joined, have a length other
   than the manifest's originalSize, the call failed with a ChunkError for
   the size mismatch, returned no buffer and did not write the output file;
   a call that returned a buffer returned originalSize bytes. *)
C19_TotalLengthCheck ==
    (Called /\ dres.manifest.isChunked = "true") =>
        /\ (/\ AllChunksVerified
            /\ IndexSet(dres.manifest.chunks)
                   = 0..(Cardinality(IndexSet(dres.manifest.chunks)) - 1)
            /\ AssembledLength(dres.manifest.chunks, dres.log)
                   # dres.manifest.originalSize) =>
               /\ dres.kind = "error"
               /\ dres.err = "ChunkError"
               /\ dres.msg = [ what |-> "size mismatch",
                               expected |-> dres.manifest.originalSize,
                               got |-> AssembledLength(dres.manifest.chunks,
                                                       dres.log) ]
               /\ dres.data = <<>>
               /\ ~dres.wrote
        /\ dres.kind = "ok" =>
               /\ Len(dres.data) = dres.manifest.originalSize
               /\ dres.wrote

(* C19 witness: three chunks were decoded and verified, and their joined
   length is not the recorded originalSize *)
C19_Witness ==
    /\ Called
    /\ dres.manifest.isChunked = "true"
    /\ Len(dres.log) = 3
    /\ AllChunksVerified
    /\ dres.err = "ChunkError"
    /\ dres.msg.what = "size mismatch"
    /\ dres.msg.got = 5

----------------------------------------------------------------------------
(* Properties of interleaved decryptAndDecompress calls, checked under
   SpecConc *)

(* The plaintext chunkFile stored at an artifact location *)
PlaintextAt(p) ==
    IF p[2] = "single" THEN ret.data ELSE ChunkBuffer(ret.data, ret.T, p[3])

(* C20: Concurrent cache population is safe.  However decryptAndDecompress
   calls for the same or different locations interleave at their awaits,
   every call that has ended returned the plaintext of its artifact, a call
   that decoded has left the location in the cache, every cache entry is the
   plaintext of its location, and no step removes or changes the entry of
   any location already in the cache. *)
C20_ConcurrentCachePopulation ==
    /\ [](/\ \A id \in DOMAIN calls :
                calls[id].pc = "done" =>
                    /\ calls[id].kind = "ok"
                    /\ calls[id].data = PlaintextAt(calls[id].path)
                    /\ calls[id].path \in DOMAIN cache
          /\ \A p \in DOMAIN cache : cache[p] = PlaintextAt(p))
    /\ [][\A p \in DOMAIN cache :
              p \in DOMAIN cache' /\ cache'[p] = cache[p]]_vars

(* C20 witness: two calls for the same location both ran the decode and both
   ended, the cache holding that location and another one *)
C20_Witness ==
    \E i, j \in DOMAIN calls :
        /\ i # j
        /\ calls[i].path = calls[j].path
        /\ calls[i].pc = "done" /\ calls[i].transforms = 2
        /\ calls[j].pc = "done" /\ calls[j].transforms = 2
        /\ Cardinality(DOMAIN cache) >= 2

----------------------------------------------------------------------------
(* Properties of a process that lacks a key, checked under SpecEnv *)

(* C21: Missing key material.  With AGE_PRIVATE_KEY absent every
   decryptAndDecompress call and every decryptFile call that got to decode
   failed with a DecryptionError, and the cache and the output files stay as
   they were (empty); with AGE_PUBLIC_KEY absent every chunkFile call failed,
   and no step writes an artifact or a manifest file. *)
C21_MissingKeys ==
    /\ [](~env.privateKey =>
            /\ cache = <<>>
            /\ outputs = <<>>
            /\ dd.kind # "none" =>
                   (dd.kind = "error" /\ dd.err = "DecryptionError"
                       /\ dd.data = <<>>)
            /\ (dres.kind # "none" /\ dres.err # "ENOENT") =>
                   (dres.kind = "error" /\ dres.err = "DecryptionError"
                       /\ dres.data = <<>> /\ ~dres.wrote))
    /\ [](~env.publicKey =>
            (ret.kind # "none" =>
                /\ ret.kind = "error"
                /\ ret.error \in {"CompressionError", "EncryptionError"}
                /\ ret.manifest = None
                /\ ret.written = {}))
    /\ [][~env.publicKey =>
              (artifacts' = artifacts /\ manifests' = manifests)]_vars

(* C21 witness: with both keys absent a chunkFile call failed in encryptAge
   and a decryptAndDecompress call for a stored artifact failed *)
C21_Witness ==
    /\ ~env.publicKey
    /\ ~env.privateKey
    /\ ret.kind = "error"
    /\ ret.error = "EncryptionError"
    /\ dd.kind = "error"
    /\ dd.path \in DOMAIN artifacts

----------------------------------------------------------------------------
(* Properties of chunkFile with an unusable CHUNK_SIZE, checked under
   SpecConfig *)

(* The chunks of manifest m cover a file of m.originalSize bytes: their
   plaintext lengths add up to it *)
CoversFile(m) ==
    Sum([j \in 1..Len(m.chunks) |->
            ChunkLength(m.originalSize, m.chunkSize, m.chunks[j].index)])
        = m.originalSize

(* C22: Invalid size parameters are rejected up front.  With a CHUNK_SIZE
   that is negative, zero or not below the ceiling, a chunkFile call of a
   file above the ceiling writes nothing: no artifact while it runs, no
   manifest file, and it ends with an error. *)
C22_InvalidSizeRejected ==
    /\ ck.pc = "loop" => ck.written = {}
    /\ (ret.kind # "none" /\ Len(ret.data) > MAX_GITHUB_SIZE) =>
           (ret.kind = "error" /\ ret.written = {})
    /\ \A b \in DOMAIN manifests : CoversFile(manifests[b])

----------------------------------------------------------------------------
(* Properties of the read path on failure, checked under SpecRead *)

(* What location p holds for the decryptFile call that dres describes: the
   cache entry the call found, or else the decode of the stored artifact *)
HeldAt(p) ==
    IF p \in dres.cached THEN [ok |-> TRUE, data |-> cache[p]]
    ELSE IF p \notin DOMAIN artifacts THEN [ok |-> FALSE, data |-> <<>>]
    ELSE IF ~AgeOpen(artifacts[p]).ok THEN [ok |-> FALSE, data |-> <<>>]
    ELSE decompressZstd(AgeOpen(artifacts[p]).data)

(* Record j of the list cannot be decoded or fails its integrity check *)
FailsAt(list, j) ==
    \/ ~HeldAt(list[j].path).ok
    \/ calculateHash(HeldAt(list[j].path).data) # list[j].hash

(* The locations of the first k records that the call did not find cached *)
Uncached(list, k) == { list[j].path : j \in 1..k } \ dres.cached

TypedErrors == {"DecryptionError", "CompressionError", "ChunkError"}

(* C23: No automatic retry.  A decryptFile call made at most one
   decryptAndDecompress call per record and ran each transform at most once
   per artifact; when a record cannot be decoded or fails its hash check, the
   call stopped at the first such record and failed with a DecryptionError,
   CompressionError or ChunkError; the unchunked path made exactly one
   decryptAndDecompress call. *)
C23_NoRetry ==
    /\ (Called /\ dres.branch = "chunks") =>
         LET list == dres.manifest.chunks
             bad == { j \in 1..Len(list) : FailsAt(list, j) }
         IN  /\ dres.decodes <= Len(list)
             /\ dres.transforms <= 2 * Cardinality(Uncached(list, dres.decodes))
             /\ bad # {} =>
                  LET first == CHOOSE j \in bad : \A l \in bad : j <= l
                  IN  /\ dres.decodes = first
                      /\ dres.kind = "error"
                      /\ dres.err \in TypedErrors
                      /\ dres.data = <<>>
             /\ bad = {} => dres.decodes = Len(list)
    /\ (Called /\ dres.branch = "single") =>
         /\ dres.decodes = 1
         /\ dres.transforms <= 2
         /\ dres.kind = "error" =>
                dres.err \in {"DecryptionError", "CompressionError"}

(* C23 witness: the first record of a longer list could not be decoded, and
   the call ended there *)
C23_Witness ==
    /\ Called
    /\ dres.branch = "chunks"
    /\ Len(dres.manifest.chunks) >= 2
    /\ ~HeldAt(dres.manifest.chunks[1].path).ok
    /\ dres.decodes = 1
    /\ dres.err \in {"DecryptionError", "CompressionError"}

(* C24: The read path is read-only on stored data.  A step of the
   FileDecryptor (decryptFile, decryptAndDecompress, decryptDirectory,
   clearCache: every step of SpecFrame that is not a change made to the store
   from outside) leaves every artifact and every manifest file as it was and
   creates and deletes none; of the program's state it changes only the cache
   and the output files. *)
C24_ReadOnly ==
    [][budget' = budget =>
          /\ artifacts' = artifacts
          /\ manifests' = manifests
          /\ ck' = ck
          /\ ret' = ret
          /\ env' = env]_vars

(* C24 witness: decryptFile and decryptDirectory have both written their
   output file and filled the cache, over a store nobody else changed *)
C24_Witness ==
    /\ budget.changed = {}
    /\ \E base \in BaseNames :
          /\ OutputPath(base) \in DOMAIN outputs
          /\ DirOutputPath(base) \in DOMAIN outputs
    /\ cache # <<>>
    /\ dres.kind = "ok"
    /\ dres.branch = "chunks"

----------------------------------------------------------------------------
(* Properties of the cache across chunkFile runs, checked under SpecRewrite *)

(* C25: Cache coherence.  Every cache entry is the decode of the artifact
   that is stored at its location now, also after a later chunkFile run has
   written the location again. *)
C25_CacheCoherence ==
    \A p \in DOMAIN cache :
        /\ p \in DOMAIN artifacts
        /\ AgeOpen(artifacts[p]).ok
        /\ decompressZstd(AgeOpen(artifacts[p]).data)
               = [ok |-> TRUE, data |-> cache[p]]

----------------------------------------------------------------------------
(* Properties of the cache, checked under SpecFrame *)

(* C27: The cache is filled only by successful decodes.  Every entry a step
   adds or changes is the result of a decrypt and a decompress of the stored
   artifact that both succeed; a decryptAndDecompress call that failed left
   the cache as it was; entries leave the cache only all together
   (clearCache). *)
C27_CacheFilledBySuccess ==
    /\ [][\A p \in DOMAIN cache' :
              \/ (p \in DOMAIN cache /\ cache'[p] = cache[p])
              \/ /\ p \in DOMAIN artifacts
                 /\ AgeOpen(artifacts[p]).ok
                 /\ decompressZstd(AgeOpen(artifacts[p]).data)
                        = [ok |-> TRUE, data |-> cache'[p]]]_vars
    /\ [][dd'.kind = "error" => cache' = cache]_vars
    /\ [][~(DOMAIN cache \subseteq DOMAIN cache') => cache' = <<>>]_vars

(* C27 witness: a decryptAndDecompress call failed in zstd while the cache
   held the entry of an earlier call *)
C27_Witness ==
    /\ dd.kind = "error"
    /\ dd.err = "CompressionError"
    /\ dd.path \notin DOMAIN cache
    /\ cache # <<>>

----------------------------------------------------------------------------
(* Properties of the output file, checked under SpecFrame *)

(* C28: The output is written only after verification.  A step changes an
   output file only as a decryptFile call that returned its buffer: the file
   at the call's output path then holds that buffer, every other output file
   is as before, and on the chunked path every record had been decoded, every
   hash had matched and the buffer has the manifest's originalSize.  A
   decryptFile call that failed left every output file as it was. *)
C28_OutputAfterVerification ==
    /\ [][outputs' # outputs =>
            /\ dres'.kind = "ok"
            /\ dres'.wrote
            /\ \E q \in {OutputPath(dres'.base), DirOutputPath(dres'.base)} :
                   outputs' = (q :> dres'.data) @@ outputs
            /\ dres'.branch = "chunks" =>
                   /\ Len(dres'.log) = Len(dres'.manifest.chunks)
                   /\ \A j \in 1..Len(dres'.log) :
                          calculateHash(dres'.log[j])
                              = dres'.manifest.chunks[j].hash
                   /\ Len(dres'.data) = dres'.manifest.originalSize]_vars
    /\ [][dres'.kind = "error" => outputs' = outputs]_vars
    /\ [](dres.kind = "error" => ~dres.wrote)

(* C28 witness: a chunked decryptFile call failed at a later chunk, after an
   earlier chunk had passed, over an output file that an earlier call had
   written *)
C28_Witness ==
    /\ dres.kind = "error"
    /\ dres.branch = "chunks"
    /\ dres.decodes >= 2
    /\ OutputPath(dres.base) \in DOMAIN outputs
    /\ Len(outputs[OutputPath(dres.base)]) = dres.manifest.originalSize

----------------------------------------------------------------------------
(* Properties of the content handlers, checked under SpecApi *)

Finished(id) == api.reqs[id].pc \in {"done", "failed"}

(* C26: Every content request is answered.  A request whose handler has run
   to its end, by returning or by throwing, has been sent exactly one
   response, with status 200, 404 or 500. *)
C26_EveryRequestAnswered ==
    \A id \in 1..Len(api.reqs) :
        Finished(id) =>
            /\ Len(api.reqs[id].responses) = 1
            /\ api.reqs[id].responses[1] \in {200, 404, 500}

(* C30: No decrypted temp file is left behind.  Once every handler for a
   name has run to its end, the temp directory holds no file of that name. *)
C30_NoTempFileLeft ==
    \A kind \in Kinds, name \in BaseNames :
        (\A id \in 1..Len(api.reqs) :
            (api.reqs[id].kind = kind /\ api.reqs[id].name = name)
                => Finished(id))
        => TempPath(kind, name) \notin DOMAIN outputs

----------------------------------------------------------------------------
(* Properties of the backup, checked under SpecBackup *)

BackupSteps ==
    <<"initializeGit", "checkSizeCompliance", "createMetadata", "commitAndPush">>

(* data/ holds a file above the file limit, or more than the total limit *)
OverLimits ==
    /\ backup.hasData
    /\ \/ \E j \in 1..Len(backup.files) : backup.files[j] > BackupFileLimit
       \/ Sum(backup.files) > BackupTotalLimit

(* C29: The backup is gated by the size check.  runBackup enters its steps
   in the order initializeGit, checkSizeCompliance, createMetadata,
   commitAndPush, each at most once; when data/ holds a file above the file
   limit or more than the total limit, it enters neither createMetadata nor
   commitAndPush, runs no git add, commit or push, and it ends in
   process.exit(1). *)
C29_BackupGated ==
    /\ Len(backup.log) <= Len(BackupSteps)
    /\ backup.log = SubSeq(BackupSteps, 1, Len(backup.log))
    /\ backup.pushed => "commitAndPush" \in { backup.log[j] : j \in 1..Len(backup.log) }
    /\ OverLimits =>
          /\ Len(backup.log) <= 2
          /\ ~backup.pushed
          /\ \A j \in 1..Len(backup.git) :
                 backup.git[j] \notin {"add", "commit", "push"}
          /\ backup.pc # "done"

(* C29 witness: the files are each within the file limit, together above
   the total limit, and runBackup has ended after checkSizeCompliance *)
C29_Witness ==
    /\ backup.pc = "exit"
    /\ backup.log = <<"initializeGit", "checkSizeCompliance">>
    /\ \A j \in 1..Len(backup.files) : backup.files[j] <= BackupFileLimit
    /\ Sum(backup.files) > BackupTotalLimit

====
